---- MODULE Spec2Model ----
(***************************************************************************)
(* IDM traffic simulation (src/idm/model.py, src/idm/simulation.py and     *)
(* the callers src/main.py, src/main_gui.py).                              *)
(*                                                                         *)
(* Numbers.  The program computes in floating point; the model computes on *)
(* a fixed-point grid: lengths in quarter metres, speeds in quarter metres *)
(* per second, accelerations in quarter metres per second squared, the IDM *)
(* headway T in quarter seconds; dt and sim_time in whole seconds.  So     *)
(* 5.0 m is 20, s0 = 2.0 m is 8, b = 1.5 is 6, v0 = 30 is 120.  Division   *)
(* and square root round down to the grid, and the value returned by the   *)
(* IDM law is rounded down to an even number of units so that the          *)
(* integrator's 0.5*a*dt^2 is exact.  np.inf is a number above every       *)
(* length the bounded runs reach.                                          *)
(*                                                                         *)
(* Positions and the road length are counted in 1/Fine of a quarter metre, *)
(* in a floating point of two spacings instead of one per binade: a        *)
(* position below half a metre in magnitude is kept to one unit, any other *)
(* position to whole quarter metres.  The result of a sum or difference of *)
(* positions is rounded to the nearest position, ties to the even one, as  *)
(* IEEE 754 does.  Sums and differences of whole quarter metres are exact, *)
(* as they are in doubles; a position with a fraction of a quarter metre   *)
(* stands for a double whose last bits are lost in a result of larger      *)
(* magnitude.                                                              *)
(***************************************************************************)
EXTENDS Integers, Sequences, FiniteSets, TLC

VARIABLES
    cfg,            \* arguments of TrafficSimulation(...) as the caller wrote them
    idm,            \* sim.idm: the IDM parameter object
    vehicles,       \* sim.vehicles: list of Vehicle objects
    data,           \* sim.data: list of snapshot records
    pc,             \* position of the program: new, constructed, read, write, done, raised
    exc,            \* the exception that ended the program ("" while none)
    t,              \* run(): loop variable t
    time_steps,     \* run(): time_steps
    car,            \* run(): index (1-based) of the vehicle the current loop is at
    accelerations,  \* run(): list accelerations of the current step
    lead_cars,      \* run(): list lead_cars of the current step (index into vehicles, None)
    initial         \* history: the vehicles as they were constructed

vars == <<cfg, idm, vehicles, data, pc, exc, t, time_steps, car,
          accelerations, lead_cars, initial>>

----------------------------------------------------------------------------
(* Bounds of the model *)

MaxVehicles == 3
MaxSimTime == 3

(* Program constants *)

CarLength == 20         \* 5.0 m
DefaultMass == 1500
None == 0               \* lead_car = None: no index of vehicles
inf == 1000000          \* np.inf

----------------------------------------------------------------------------
(* Positions in floating point *)

\* position units per length unit
Fine == 32

\* a length, as a position
ToPosition(len) == Fine * len

\* the position nearest to the exact sum or difference x of two positions:
\* x itself below two length units, else whole length units, ties to even
Rounded(x) ==
    IF 0 - 2 * Fine < x /\ x < 2 * Fine THEN x
    ELSE LET q == x \div Fine
             r == x % Fine
         IN  IF 2 * r < Fine THEN Fine * q
             ELSE IF 2 * r > Fine THEN Fine * (q + 1)
             ELSE IF q % 2 = 0 THEN Fine * q ELSE Fine * (q + 1)

\* a position of whole length units, as a length
ToLength(x) == x \div Fine

----------------------------------------------------------------------------
(* Inputs *)

IDMDefault == [a_max |-> 4, b |-> 6, delta |-> 4, s0 |-> 8, T |-> 6, v0 |-> 120]

\* parameter objects a caller may install in sim.idm: the defaults, a set with
\* the edge values s0 = 0, T = 0, delta = 1, and one with v0 = 0
IDMParameterSets ==
    { IDMDefault,
      [a_max |-> 4, b |-> 4, delta |-> 1, s0 |-> 0, T |-> 0, v0 |-> 80],
      [a_max |-> 4, b |-> 6, delta |-> 4, s0 |-> 8, T |-> 6, v0 |-> 0] }

NumVehicles == (0 - 1) .. MaxVehicles
SimTimes == {0, MaxSimTime}
DtValues == {0 - 1, 0, 1, 2}
\* the roads: none, one shorter than half the spacing of the positions around
\* 5.0 m (1e-15 m in doubles), 12 m and 30 m
TinyRoad == 12
RoadLengths == {0, TinyRoad, ToPosition(48), ToPosition(120)}
\* the five kinds the option menu of main_gui.py offers, and one no caller knows
MenuDistributions == {"uniform", "random", "normal", "exponential", "triangular"}
Distributions == MenuDistributions \cup {"bogus"}
SpeedRanges == { <<0, 80>> }
SpeedGrid == {0, 80}
PositionGrid == { ToPosition(x) : x \in {0, 12, 25} }
\* raw samples of np.random.normal: the grid, one below 0.0, one above every
\* road, and one with a fraction of a length unit (1.5 units)
RawSamples ==
    PositionGrid \cup {ToPosition(0 - 12), ToPosition(1000)}
                 \cup {Fine + Fine \div 2}

\* keyword arguments TrafficSimulation.__init__ declares
InitKeywords == {"num_vehicles", "sim_time", "dt", "road_length", "distribution", "speed_range"}

\* main.py and matplotlib_visualization.py pass the six declared keywords;
\* main_gui.py passes fixed_first_speed as well
\* a program that uses the classes directly ("api") passes the declared
\* keywords and may install its own IDM(...) in sim.idm, as main_gui.py does
Callers == {"main", "main_gui", "api"}
KeywordsOf(caller) ==
    IF caller = "main_gui" THEN InitKeywords \cup {"fixed_first_speed"} ELSE InitKeywords

\* first_speed of main_gui: <<>> is None (entry left empty), <<v>> a speed
FirstSpeeds == { <<>>, <<80>> }

----------------------------------------------------------------------------
(* Arithmetic helpers *)

Max(a, b) == IF a >= b THEN a ELSE b
Min(a, b) == IF a <= b THEN a ELSE b

RECURSIVE Pow(_, _)
Pow(x, n) == IF n = 0 THEN 1 ELSE x * Pow(x, n - 1)

ISqrt(n) == CHOOSE r \in 0 .. n : r * r <= n /\ (r + 1) * (r + 1) > n

Even(x) == 2 * (x \div 2)

\* int(a / b) for b # 0: the quotient, rounded towards zero
Trunc(a, b) ==
    IF b > 0
    THEN IF a >= 0 THEN a \div b ELSE 0 - ((0 - a) \div b)
    ELSE IF a >= 0 THEN 0 - (a \div (0 - b)) ELSE (0 - a) \div (0 - b)

----------------------------------------------------------------------------
(* idm/model.py: IDM.calculate_acceleration *)

\* the result of a call: a returned value, or the exception it raised
Returned(v) == [exc |-> "", value |-> v]
Raised(e) == [exc |-> e, value |-> 0]

\* s = lead.position - ego.position - 5.0, np.inf without a lead
EffectiveGap(vs, ego, lead) ==
    IF lead = None THEN inf
    ELSE ToLength(Rounded(Rounded(vs[lead].position - vs[ego].position)
                             - ToPosition(CarLength)))

\* delta_v = ego.velocity - lead.velocity, 0.0 without a lead
DeltaV(vs, ego, lead) ==
    IF lead = None THEN 0 ELSE vs[ego].velocity - vs[lead].velocity

\* s_star = s0 + v*T + (v*delta_v) / (2*sqrt(a_max*b))
SStar(p, v, delta_v) ==
    p.s0 + (v * p.T) \div 4 + (v * delta_v) \div ISqrt(4 * p.a_max * p.b)

\* a_max * term1, term1 = (v / v0) ** delta   (v0 # 0)
AMaxTerm1(p, v) == (p.a_max * Pow(v, p.delta)) \div Pow(p.v0, p.delta)

\* a_max * term2, term2 = (s_star / s) ** 2 for a finite s, else 0.0
AMaxTerm2(p, s_star, s) ==
    IF s # inf THEN (p.a_max * s_star * s_star) \div (s * s) ELSE 0

\* accel = max(-b, min(a_max, accel))
ClampAccel(p, accel) == Max(-p.b, Min(p.a_max, accel))

\* mutant: the emergency braking returns -a_max
calculate_acceleration_EmergencyAMax(p, vs, ego, lead) ==
    LET s       == EffectiveGap(vs, ego, lead)
        delta_v == DeltaV(vs, ego, lead)
        v       == vs[ego].velocity
    IN  IF lead # None /\ s <= 0 THEN Returned(-p.a_max)
        ELSE IF p.v0 = 0 THEN Raised("ZeroDivisionError")
        ELSE LET s_star == SStar(p, v, delta_v)
                 accel  == p.a_max - AMaxTerm1(p, v) - AMaxTerm2(p, s_star, s)
             IN  Returned(ClampAccel(p, Even(accel)))

\* The vehicle's velocity is a Python float whenever term1 is evaluated with
\* v0 = 0.0 in the first step, and float / 0.0 raises ZeroDivisionError,
\* which the except FloatingPointError clause does not catch.
\* The branch `not np.isfinite(accel)` needs an overflow or an infinite
\* operand, which the bounded values never produce.
calculate_acceleration(p, vs, ego, lead) ==
    LET s       == EffectiveGap(vs, ego, lead)
        delta_v == DeltaV(vs, ego, lead)
        v       == vs[ego].velocity
    IN  IF lead # None /\ s <= 0 THEN Returned(-p.b)
        ELSE IF p.v0 = 0 THEN Raised("ZeroDivisionError")
        ELSE LET s_star == SStar(p, v, delta_v)
                 accel  == p.a_max - AMaxTerm1(p, v) - AMaxTerm2(p, s_star, s)
             IN  Returned(ClampAccel(p, Even(accel)))

----------------------------------------------------------------------------
(* idm/simulation.py: the leader lookup of run(), lines 104-111 *)

\* mutant: the scan looks at the vehicles behind (comparison reversed)
RECURSIVE ScanLead_Behind(_, _, _, _, _)
ScanLead_Behind(vs, ego, k, lead_car, min_gap) ==
    IF k > Len(vs) THEN lead_car
    ELSE IF vs[k].position < vs[ego].position
            /\ Rounded(vs[ego].position - vs[k].position) < min_gap
         THEN ScanLead_Behind(vs, ego, k + 1, k, Rounded(vs[ego].position - vs[k].position))
         ELSE ScanLead_Behind(vs, ego, k + 1, lead_car, min_gap)

\* mutant: `>=` for `>`, a vehicle at the same position counts as ahead
RECURSIVE ScanLead_NotStrict(_, _, _, _, _)
ScanLead_NotStrict(vs, ego, k, lead_car, min_gap) ==
    IF k > Len(vs) THEN lead_car
    ELSE IF vs[k].position >= vs[ego].position
            /\ Rounded(vs[k].position - vs[ego].position) < min_gap
         THEN ScanLead_NotStrict(vs, ego, k + 1, k, Rounded(vs[k].position - vs[ego].position))
         ELSE ScanLead_NotStrict(vs, ego, k + 1, lead_car, min_gap)

\* mutant: `<=` for `<`, the last of several nearest vehicles wins
RECURSIVE ScanLead_LastWins(_, _, _, _, _)
ScanLead_LastWins(vs, ego, k, lead_car, min_gap) ==
    IF k > Len(vs) THEN lead_car
    ELSE IF vs[k].position > vs[ego].position
            /\ Rounded(vs[k].position - vs[ego].position) <= min_gap
         THEN ScanLead_LastWins(vs, ego, k + 1, k, Rounded(vs[k].position - vs[ego].position))
         ELSE ScanLead_LastWins(vs, ego, k + 1, lead_car, min_gap)

\* the inner loop `for other in self.vehicles`, at list index k, carrying
\* the loop's lead_car and min_gap
RECURSIVE ScanLead(_, _, _, _, _)
ScanLead(vs, ego, k, lead_car, min_gap) ==
    IF k > Len(vs) THEN lead_car
    ELSE IF vs[k].position > vs[ego].position
            /\ Rounded(vs[k].position - vs[ego].position) < min_gap
         THEN ScanLead(vs, ego, k + 1, k, Rounded(vs[k].position - vs[ego].position))
         ELSE ScanLead(vs, ego, k + 1, lead_car, min_gap)

FindLead(vs, ego) == ScanLead(vs, ego, 1, None, inf)

----------------------------------------------------------------------------
(* idm/simulation.py: the integration of run(), lines 122-146 *)

\* mutant: the car length is not subtracted
Gap_NoCarLength(vs, idx, lead) ==
    IF lead = None THEN inf
    ELSE ToLength(Rounded(vs[lead].position - vs[idx].position))

\* gap = lead_car.position - car.position - 5.0, np.inf without a lead;
\* read from the vehicles as they are when this vehicle is written
Gap(vs, idx, lead) ==
    IF lead = None THEN inf
    ELSE ToLength(Rounded(Rounded(vs[lead].position - vs[idx].position)
                             - ToPosition(CarLength)))

\* mutant: the velocity is not cut off at 0.0
NewVelocity_NoFloor(old_v, a, dt) == old_v + a * dt

\* new_v = old_v + a*dt, not below 0.0
NewVelocity(old_v, a, dt) == Max(old_v + a * dt, 0)

\* dx = old_v*dt + 0.5*a*dt**2, not below 0.0
Integrated(old_v, a, dt) == Max(old_v * dt + (a * dt * dt) \div 2, 0)

\* mutant: the clamp is missing
Displacement_NoClamp(old_v, a, dt, gap) == Integrated(old_v, a, dt)

\* if dx > gap: dx = gap
Displacement(old_v, a, dt, gap) ==
    IF Integrated(old_v, a, dt) > gap THEN gap ELSE Integrated(old_v, a, dt)

\* mutant: a clamped vehicle takes at most its leader's velocity and acceleration 0
Updated_ClampOverrides(vs, idx, a, lead, dt) ==
    LET gap     == Gap(vs, idx, lead)
        old_v   == vs[idx].velocity
        clamped == Integrated(old_v, a, dt) > gap
    IN  [vs[idx] EXCEPT
            !.position = Rounded(@ + ToPosition(Displacement(old_v, a, dt, gap))),
            !.velocity = IF clamped
                         THEN Min(NewVelocity(old_v, a, dt), vs[lead].velocity)
                         ELSE NewVelocity(old_v, a, dt),
            !.acceleration = IF clamped THEN 0 ELSE a]

\* the vehicle idx after lines 144-146: car.position += dx, car.velocity = new_v,
\* car.acceleration = a
Updated(vs, idx, a, lead, dt) ==
    LET gap   == Gap(vs, idx, lead)
        old_v == vs[idx].velocity
    IN  [vs[idx] EXCEPT
            !.position = Rounded(@ + ToPosition(Displacement(old_v, a, dt, gap))),
            !.velocity = NewVelocity(old_v, a, dt),
            !.acceleration = a]

\* the dict appended to self.data, lines 149-157
Snapshot(current_time, v) ==
    [time |-> current_time, id |-> v.vehicle_id, x |-> v.position, y |-> 0,
     v |-> v.velocity, a |-> v.acceleration, mass |-> v.mass]

----------------------------------------------------------------------------
(* idm/simulation.py: TrafficSimulation._initialize_vehicles *)

\* mutant: the positions start one spacing in, i = 1..n
UniformPositions_FromOne(n, road_length) ==
    [i \in 1 .. n |-> i * (road_length \div n)]

\* positions = [i * spacing for i in range(num_vehicles)], spacing = road_length / num_vehicles
\* (every road length of RoadLengths is a multiple of every vehicle count, so
\* the division is exact; on the tiny road every position is tiny)
UniformPositions(n, road_length) ==
    [i \in 1 .. n |-> (i - 1) * (road_length \div n)]

\* np.clip(positions, 0.0, road_length)
Clip(x, lo, hi) == IF x < lo THEN lo ELSE IF x > hi THEN hi ELSE x

\* positions.sort(): insertion of x into the ascending sequence q
RECURSIVE Insert(_, _)
Insert(x, q) ==
    IF q = <<>> THEN <<x>>
    ELSE IF x <= Head(q) THEN <<x>> \o q
    ELSE <<Head(q)>> \o Insert(x, Tail(q))

RECURSIVE Sort(_)
Sort(q) == IF q = <<>> THEN <<>> ELSE Insert(Head(q), Sort(Tail(q)))

\* the position lists the 'normal' branch can produce: drawn, clipped, sorted
NormalPositions(n, road_length) ==
    { Sort([i \in 1 .. n |-> Clip(raw[i], 0, road_length)]) :
        raw \in [1 .. n -> RawSamples] }

\* np.random.uniform(speed_range[0], speed_range[1]), once per vehicle
InitialVelocities(n, speed_range) ==
    [1 .. n -> { v \in SpeedGrid : speed_range[1] <= v /\ v <= speed_range[2] }]

\* Vehicle(vehicle_id=i, position=pos, velocity=vel): acceleration 0.0, mass 1500.0
Vehicle(vehicle_id, position, velocity) ==
    [vehicle_id |-> vehicle_id, position |-> position, velocity |-> velocity,
     acceleration |-> 0, mass |-> DefaultMass]

\* self.vehicles after the loop of lines 69-72
Fleet(positions, velocities) ==
    [i \in 1 .. Len(positions) |-> Vehicle(i - 1, positions[i], velocities[i])]

----------------------------------------------------------------------------
(* The program *)

Init ==
    /\ cfg \in [caller : Callers, num_vehicles : NumVehicles, sim_time : SimTimes,
                dt : DtValues, road_length : RoadLengths,
                distribution : Distributions, speed_range : SpeedRanges,
                first_speed : FirstSpeeds]
    /\ cfg.caller # "main_gui" => cfg.first_speed = <<>>
    /\ idm = IDMDefault
    /\ vehicles = <<>>
    /\ data = <<>>
    /\ pc = "new"
    /\ exc = ""
    /\ t = 0
    /\ time_steps = 0
    /\ car = 1
    /\ accelerations = <<>>
    /\ lead_cars = <<>>
    /\ initial = <<>>

Raise(e) ==
    /\ pc' = "raised"
    /\ exc' = e

\* TrafficSimulation(...) called with a keyword __init__ does not declare
ConstructTypeError ==
    /\ pc = "new"
    /\ ~ (KeywordsOf(cfg.caller) \subseteq InitKeywords)
    /\ Raise("TypeError")
    /\ UNCHANGED <<cfg, idm, vehicles, data, t, time_steps, car, accelerations, lead_cars, initial>>

\* _initialize_vehicles raises: num_vehicles <= 0, or an unknown distribution
ConstructValueError ==
    /\ pc = "new"
    /\ KeywordsOf(cfg.caller) \subseteq InitKeywords
    /\ \/ cfg.num_vehicles <= 0
       \/ cfg.distribution \notin {"uniform", "normal"}
    /\ Raise("ValueError")
    /\ UNCHANGED <<cfg, idm, vehicles, data, t, time_steps, car, accelerations, lead_cars, initial>>

\* mutant: every distribution other than 'normal' is placed like 'uniform'
Construct_AnyDistribution ==
    /\ pc = "new"
    /\ KeywordsOf(cfg.caller) \subseteq InitKeywords
    /\ cfg.num_vehicles > 0
    /\ \E positions \in (IF cfg.distribution # "normal"
                         THEN {UniformPositions(cfg.num_vehicles, cfg.road_length)}
                         ELSE NormalPositions(cfg.num_vehicles, cfg.road_length)) :
       \E velocities \in InitialVelocities(cfg.num_vehicles, cfg.speed_range) :
          /\ vehicles' = Fleet(positions, velocities)
          /\ initial' = Fleet(positions, velocities)
    /\ pc' = "constructed"
    /\ UNCHANGED <<cfg, idm, data, exc, t, time_steps, car, accelerations, lead_cars>>

\* __init__ and _initialize_vehicles run to the end
Construct ==
    /\ pc = "new"
    /\ KeywordsOf(cfg.caller) \subseteq InitKeywords
    /\ cfg.num_vehicles > 0
    /\ cfg.distribution \in {"uniform", "normal"}
    /\ \E positions \in (IF cfg.distribution = "uniform"
                         THEN {UniformPositions(cfg.num_vehicles, cfg.road_length)}
                         ELSE NormalPositions(cfg.num_vehicles, cfg.road_length)) :
       \E velocities \in InitialVelocities(cfg.num_vehicles, cfg.speed_range) :
          /\ vehicles' = Fleet(positions, velocities)
          /\ initial' = Fleet(positions, velocities)
    /\ pc' = "constructed"
    /\ UNCHANGED <<cfg, idm, data, exc, t, time_steps, car, accelerations, lead_cars>>

\* sim.idm = IDM(...): the caller replaces the parameter object before run()
InstallIDM ==
    /\ pc = "constructed"
    /\ cfg.caller # "main"
    /\ idm' \in IDMParameterSets
    /\ pc' = "configured"
    /\ UNCHANGED <<cfg, vehicles, data, exc, t, time_steps, car, accelerations, lead_cars, initial>>

\* the caller calls sim.run(): main.py right after the construction, the
\* others after sim.idm is installed
RunCalled ==
    \/ pc = "constructed" /\ cfg.caller = "main"
    \/ pc = "configured"

\* run(), line 95 with dt = 0.0: sim_time / dt raises ZeroDivisionError
RunZeroDivision ==
    /\ RunCalled
    /\ cfg.dt = 0
    /\ Raise("ZeroDivisionError")
    /\ UNCHANGED <<cfg, idm, vehicles, data, t, time_steps, car, accelerations, lead_cars, initial>>

\* run(), lines 95-96: time_steps = int(sim_time / dt); range(time_steps) is
\* entered, or empty when time_steps <= 0
RunStart ==
    /\ RunCalled
    /\ cfg.dt # 0
    /\ time_steps' = Trunc(cfg.sim_time, cfg.dt)
    /\ t' = 0
    /\ car' = 1
    /\ pc' = IF Trunc(cfg.sim_time, cfg.dt) > 0 THEN "read" ELSE "done"
    /\ UNCHANGED <<cfg, idm, vehicles, data, exc, accelerations, lead_cars, initial>>

\* mutant: one loop, the vehicle is updated as soon as its acceleration is known
ReadCar_InPlace ==
    /\ pc = "read"
    /\ LET leads    == IF car = 1 THEN <<>> ELSE lead_cars
           accs     == IF car = 1 THEN <<>> ELSE accelerations
           lead_car == FindLead(vehicles, car)
           a        == calculate_acceleration(idm, vehicles, car, lead_car)
       IN  /\ lead_cars' = Append(leads, lead_car)
           /\ IF a.exc # ""
              THEN /\ Raise(a.exc)
                   /\ UNCHANGED <<accelerations, car, vehicles>>
              ELSE /\ accelerations' = Append(accs, a.value)
                   /\ vehicles' = [vehicles EXCEPT
                                      ![car] = Updated(vehicles, car, a.value, lead_car, cfg.dt)]
                   /\ exc' = exc
                   /\ IF car = Len(vehicles)
                      THEN pc' = "write" /\ car' = 1
                      ELSE pc' = "read" /\ car' = car + 1
    /\ UNCHANGED <<cfg, idm, data, t, time_steps, initial>>

\* run(), lines 100-115, for the vehicle at index car: the lists are created
\* empty before the first vehicle, then the leader lookup and the IDM law
ReadCar ==
    /\ pc = "read"
    /\ LET leads    == IF car = 1 THEN <<>> ELSE lead_cars
           accs     == IF car = 1 THEN <<>> ELSE accelerations
           lead_car == FindLead(vehicles, car)
           a        == calculate_acceleration(idm, vehicles, car, lead_car)
       IN  /\ lead_cars' = Append(leads, lead_car)
           /\ IF a.exc # ""
              THEN /\ Raise(a.exc)
                   /\ UNCHANGED <<accelerations, car>>
              ELSE /\ accelerations' = Append(accs, a.value)
                   /\ exc' = exc
                   /\ IF car = Len(vehicles)
                      THEN pc' = "write" /\ car' = 1
                      ELSE pc' = "read" /\ car' = car + 1
    /\ UNCHANGED <<cfg, idm, vehicles, data, t, time_steps, initial>>

\* mutant: the record is appended before the vehicle is updated
WriteCar_RecordBefore ==
    /\ pc = "write"
    /\ LET new == Updated(vehicles, car, accelerations[car], lead_cars[car], cfg.dt)
       IN  /\ vehicles' = [vehicles EXCEPT ![car] = new]
           /\ data' = Append(data, Snapshot(t * cfg.dt, vehicles[car]))
    /\ IF car < Len(vehicles)
       THEN /\ car' = car + 1
            /\ UNCHANGED <<pc, t>>
       ELSE /\ car' = 1
            /\ t' = t + 1
            /\ pc' = IF t + 1 < time_steps THEN "read" ELSE "done"
    /\ UNCHANGED <<cfg, idm, exc, time_steps, accelerations, lead_cars, initial>>

\* run(), lines 118-157, for the vehicle at index car (idx): integrate, clamp,
\* commit, append the record; after the last vehicle the next step begins or
\* the loop ends
WriteCar ==
    /\ pc = "write"
    /\ LET new == Updated(vehicles, car, accelerations[car], lead_cars[car], cfg.dt)
       IN  /\ vehicles' = [vehicles EXCEPT ![car] = new]
           /\ data' = Append(data, Snapshot(t * cfg.dt, new))
    /\ IF car < Len(vehicles)
       THEN /\ car' = car + 1
            /\ UNCHANGED <<pc, t>>
       ELSE /\ car' = 1
            /\ t' = t + 1
            /\ pc' = IF t + 1 < time_steps THEN "read" ELSE "done"
    /\ UNCHANGED <<cfg, idm, exc, time_steps, accelerations, lead_cars, initial>>

Next ==
    \/ ConstructTypeError
    \/ ConstructValueError
    \/ Construct
    \/ InstallIDM
    \/ RunZeroDivision
    \/ RunStart
    \/ ReadCar
    \/ WriteCar

Spec == Init /\ [][Next]_vars

----------------------------------------------------------------------------
(* Well-formedness of the model's arithmetic *)

\* every acceleration is an even number of units, so 0.5*a*dt**2 is exact,
\* every position is a double and stays below the number that stands for np.inf
GridOK ==
    /\ \A i \in DOMAIN accelerations : accelerations[i] % 2 = 0
    /\ \A i \in DOMAIN vehicles :
          /\ vehicles[i].position < inf /\ vehicles[i].position > 0 - inf
          /\ Rounded(vehicles[i].position) = vehicles[i].position
          /\ vehicles[i].velocity < inf

----------------------------------------------------------------------------
(* Vocabulary of the claims *)

N == Len(vehicles)

\* the state every vehicle had at the end of the previous step: the records
\* of step t-1, or the constructed vehicles before step 0
Previous ==
    [i \in 1 .. N |->
        IF t = 0 THEN [position |-> initial[i].position, velocity |-> initial[i].velocity]
        ELSE [position |-> data[(t - 1) * N + i].x, velocity |-> data[(t - 1) * N + i].v]]

\* the read phase of the current step is over and no vehicle is written yet
ReadPhaseComplete == pc = "write" /\ car = 1

\* the entries of lead_cars and accelerations that belong to the current step
Fresh == IF pc = "read" THEN 1 .. (car - 1) ELSE IF pc = "write" THEN 1 .. N ELSE {}

\* a step's write phase has just finished: its leaders are still in lead_cars
WritePhaseFinished ==
    /\ N > 0 /\ t > 0 /\ Len(lead_cars) = N
    /\ (pc = "read" /\ car = 1) \/ pc = "done"

\* the clamp `if dx > gap: dx = gap` fires for the vehicle about to be written
ClampFires ==
    /\ pc = "write"
    /\ lead_cars[car] # None
    /\ Integrated(vehicles[car].velocity, accelerations[car], cfg.dt)
          > Gap(vehicles, car, lead_cars[car])

StrictStart == \A i \in 1 .. Len(initial) - 1 : initial[i].position < initial[i + 1].position

\* the vehicles were constructed in list order, each at least a car length
\* behind the next
SpacedStart ==
    \A i \in 1 .. Len(initial) - 1 :
        initial[i + 1].position - initial[i].position >= ToPosition(CarLength)

----------------------------------------------------------------------------
(* C1 *)

\* C1 as stated: once the write phase of a step is finished, every vehicle
\* that had a leader in that step is at least s0 + car_length behind it.
C1_BehindLeaderByS0 ==
    WritePhaseFinished =>
        \A i \in 1 .. N : lead_cars[i] # None =>
            vehicles[i].position
               <= vehicles[lead_cars[i]].position - ToPosition(idm.s0 + CarLength)

\* C1 amended: when a vehicle with a leader is written, its new position is
\* at most position + (leader.position - position - car_length) as floating
\* point computes it, with the position its leader has at that moment; that
\* is car_length (s0 is not subtracted) behind the leader, up to one spacing
\* of the positions.
C1_BehindLeaderByCarLength ==
    [][pc = "write" /\ lead_cars[car] # None =>
         LET position == vehicles[car].position
             leader   == vehicles[lead_cars[car]].position
         IN  /\ vehicles'[car].position
                   <= Rounded(position + Rounded(Rounded(leader - position)
                                                    - ToPosition(CarLength)))
             /\ vehicles'[car].position <= leader - ToPosition(CarLength) + Fine]_vars

\* a vehicle has just been clamped onto its leader, closer than s0 + car_length
C1_Witness ==
    /\ pc = "write" /\ car > 1
    /\ lead_cars[car - 1] > car - 1
    /\ idm.s0 > 0
    /\ vehicles[car - 1].position
          = vehicles[lead_cars[car - 1]].position - ToPosition(CarLength)
    /\ vehicles[car - 1].position > Previous[car - 1].position

----------------------------------------------------------------------------
(* C2 *)

\* C2: every record appended by run() has velocity >= 0.
C2_VelocityNonNegative == \A k \in DOMAIN data : data[k].v >= 0

\* a record whose velocity was cut off at 0: the vehicle was moving and the
\* braking of the step would have made its velocity negative
C2_Witness ==
    \E k \in DOMAIN data :
        /\ k > N
        /\ data[k].v = 0
        /\ data[k - N].v > 0
        /\ data[k - N].v + data[k].a * cfg.dt < 0

----------------------------------------------------------------------------
(* C3 *)

\* C3: during the read phase no vehicle differs from its state at the end of
\* the previous step, and every leader and acceleration of the current step
\* (read phase and write phase alike) is the one computed from those states.
C3_ReadsPreviousStep ==
    /\ pc = "read" =>
          \A i \in 1 .. N : /\ vehicles[i].position = Previous[i].position
                            /\ vehicles[i].velocity = Previous[i].velocity
    /\ \A i \in Fresh :
          /\ lead_cars[i] = FindLead(Previous, i)
          /\ accelerations[i] = calculate_acceleration(idm, Previous, i, lead_cars[i]).value

\* a later step's write phase is under way: vehicles before car already moved
C3_Witness ==
    /\ pc = "write" /\ t > 0 /\ car > 1
    /\ vehicles[1].position # Previous[1].position
    /\ \E i \in 1 .. N : lead_cars[i] # None

----------------------------------------------------------------------------
(* C4 *)

\* C4 as stated: in every reachable state of the write phase the leader of the
\* vehicle about to be written has not been written in this step, and its
\* position is the one of the previous step.
C4_LeaderOld ==
    pc = "write" /\ lead_cars[car] # None =>
        /\ lead_cars[car] > car
        /\ vehicles[lead_cars[car]].position = Previous[lead_cars[car]].position

\* C4 amended: the same, for runs whose vehicles start in list order, each
\* at least a car length behind the next.
C4_LeaderOldSpacedStart == SpacedStart => C4_LeaderOld

C4_Witness ==
    /\ SpacedStart /\ t > 0
    /\ ClampFires
    /\ car > 1

----------------------------------------------------------------------------
(* C5 *)

\* C5 as stated: a clamped vehicle is committed at leader.position - (s0 + car_length).
C5_ClampToS0 ==
    [][ClampFires =>
         vehicles'[car].position
            = Rounded(vehicles[lead_cars[car]].position
                         - ToPosition(idm.s0 + CarLength))]_vars

\* C5 amended: a clamped vehicle is committed at
\* position + (leader.position - position - car_length) as floating point
\* computes it, which is leader.position - car_length up to one spacing of
\* the positions.
C5_ClampToCarLength ==
    [][ClampFires =>
         LET position == vehicles[car].position
             leader   == vehicles[lead_cars[car]].position
         IN  /\ vehicles'[car].position
                   = Rounded(position + Rounded(Rounded(leader - position)
                                                   - ToPosition(CarLength)))
             /\ vehicles'[car].position <= leader - ToPosition(CarLength) + Fine
             /\ vehicles'[car].position >= leader - ToPosition(CarLength) - Fine]_vars

\* the vehicle written last was clamped forwards onto its leader
C5_Witness ==
    /\ pc = "write" /\ car > 1
    /\ lead_cars[car - 1] # None
    /\ idm.s0 > 0
    /\ data[Len(data)].x = vehicles[lead_cars[car - 1]].position - ToPosition(CarLength)
    /\ data[Len(data)].x > Previous[car - 1].position
    /\ data[Len(data)].v > 0

----------------------------------------------------------------------------
(* C6 *)

\* C6 as stated: a clamped vehicle is committed and recorded with velocity
\* min(new_velocity, leader.velocity) and acceleration 0.
C6_ClampVelocityAccel ==
    [][ClampFires =>
         LET new_v == NewVelocity(vehicles[car].velocity, accelerations[car], cfg.dt)
             rec   == data'[Len(data')]
         IN  /\ vehicles'[car].velocity = Min(new_v, vehicles[lead_cars[car]].velocity)
             /\ vehicles'[car].acceleration = 0
             /\ rec.v = vehicles'[car].velocity /\ rec.a = 0]_vars

\* C6 amended: a clamped vehicle is committed and recorded with velocity
\* max(old_velocity + a*dt, 0) and with the acceleration a of the read phase.
C6_ClampKeepsKinematics ==
    [][ClampFires =>
         LET new_v == Max(vehicles[car].velocity + accelerations[car] * cfg.dt, 0)
             rec   == data'[Len(data')]
         IN  /\ vehicles'[car].velocity = new_v
             /\ vehicles'[car].acceleration = accelerations[car]
             /\ rec.v = new_v /\ rec.a = accelerations[car]
             /\ rec.id = vehicles[car].vehicle_id]_vars

\* the vehicle written last was clamped with a nonzero acceleration and is
\* now faster than its leader
C6_Witness ==
    /\ pc = "write" /\ car > 1
    /\ lead_cars[car - 1] > car - 1
    /\ data[Len(data)].x = vehicles[lead_cars[car - 1]].position - ToPosition(CarLength)
    /\ data[Len(data)].a # 0
    /\ data[Len(data)].v > vehicles[lead_cars[car - 1]].velocity

----------------------------------------------------------------------------
(* C7 *)

\* C7: the displacement applied to a vehicle is never negative.
C7_NeverBackwards ==
    [][pc = "write" => vehicles'[car].position >= vehicles[car].position]_vars

----------------------------------------------------------------------------
(* C8 *)

\* the vehicle with the maximum initial position
InitialLeader ==
    CHOOSE i \in 1 .. Len(initial) : \A j \in 1 .. Len(initial) :
        initial[j].position <= initial[i].position

\* C8: with a fixed leader speed configured the simulation runs, and every
\* record of the vehicle with the maximum initial position has acceleration 0
\* and a position fixed_speed*dt beyond the one before.
C8_FixedLeader ==
    cfg.first_speed # <<>> =>
        /\ exc # "TypeError"
        /\ \A k \in DOMAIN data : data[k].id = initial[InitialLeader].vehicle_id =>
              /\ data[k].a = 0
              /\ data[k].x = (IF k > N THEN data[k - N].x ELSE initial[InitialLeader].position)
                                + ToPosition(cfg.first_speed[1] * cfg.dt)

----------------------------------------------------------------------------
(* C9 *)

\* C9: for the vehicle the read phase is at, calculate_acceleration returns
\* a value, and the value lies in [-b, a_max].
C9_AccelInRange ==
    pc = "read" =>
        LET r == calculate_acceleration(idm, vehicles, car, FindLead(vehicles, car))
        IN  /\ r.exc = ""
            /\ 0 - idm.b <= r.value /\ r.value <= idm.a_max

----------------------------------------------------------------------------
(* C10 *)

\* C10: every leader chosen in the read phase is a vehicle strictly ahead at
\* the minimal distance, and none is chosen exactly when no vehicle is
\* strictly ahead.
C10_NearestStrictlyAhead ==
    pc = "read" \/ ReadPhaseComplete =>
        \A i \in Fresh :
            LET ahead == { o \in 1 .. N : vehicles[o].position > vehicles[i].position }
                l     == lead_cars[i]
            IN  /\ l = None <=> ahead = {}
                /\ l # None =>
                      /\ l \in ahead
                      /\ \A o \in ahead :
                            vehicles[l].position - vehicles[i].position
                               <= vehicles[o].position - vehicles[i].position

\* the read phase met two vehicles at one position, neither the leader of the
\* other, and a vehicle behind them that took one of them as its leader
C10_Witness ==
    /\ ReadPhaseComplete
    /\ \E i, j, m \in 1 .. N :
          /\ i # j /\ vehicles[i].position = vehicles[j].position
          /\ lead_cars[i] = None /\ lead_cars[j] = None
          /\ lead_cars[m] \in {i, j}

----------------------------------------------------------------------------
(* C11 *)

\* C11: with dt > 0 and sim_time >= 0, run() is not left by an exception, it
\* ends after floor(sim_time/dt) iterations with steps*N records, and the
\* records of step k carry the time k*dt.
C11_RunsAllSteps ==
    cfg.dt > 0 /\ cfg.sim_time >= 0 =>
        /\ pc = "raised" => exc \in {"ValueError", "TypeError"}
        /\ pc = "done" => /\ t = cfg.sim_time \div cfg.dt
                          /\ Len(data) = (cfg.sim_time \div cfg.dt) * N
        /\ \A k \in DOMAIN data : data[k].time = ((k - 1) \div N) * cfg.dt

----------------------------------------------------------------------------
(* C12 *)

\* C12: with num_vehicles <= 0 or a distribution kind nobody knows the program
\* never gets past the construction: it is not yet constructed or has raised
\* there, no vehicle exists and no record is produced.
C12_BadConfigFailsAtConstruction ==
    cfg.num_vehicles <= 0 \/ cfg.distribution \notin MenuDistributions =>
        /\ pc \in {"new", "raised"}
        /\ pc = "raised" => exc \in {"ValueError", "TypeError"}
        /\ vehicles = <<>> /\ data = <<>> /\ t = 0

\* _initialize_vehicles has raised for an unknown kind with a valid count
C12_Witness ==
    /\ pc = "raised" /\ exc = "ValueError"
    /\ cfg.distribution \notin MenuDistributions
    /\ cfg.num_vehicles > 0

----------------------------------------------------------------------------
(* C13 *)

\* C13: with dt <= 0 the run is rejected before any step: it never enters
\* the loop, produces no record and never completes normally.
C13_NonPositiveDtRejected ==
    cfg.dt <= 0 =>
        /\ pc \notin {"read", "write", "done"}
        /\ data = <<>>

----------------------------------------------------------------------------
(* C14 *)

\* C14: each of the five distribution kinds is accepted (no ValueError for a
\* positive vehicle count), and the constructed vehicles have the ids
\* 0..N-1 and positions in [0, L] ascending with the id.
C14_FiveKindsAccepted ==
    /\ cfg.distribution \in MenuDistributions
    /\ cfg.num_vehicles > 0
    /\ KeywordsOf(cfg.caller) \subseteq InitKeywords
    =>  /\ exc # "ValueError"
        /\ \A i \in 1 .. Len(initial) :
              /\ initial[i].vehicle_id = i - 1
              /\ 0 <= initial[i].position /\ initial[i].position <= cfg.road_length
              /\ i > 1 => initial[i - 1].position <= initial[i].position

----------------------------------------------------------------------------
(* C15 *)

\* C15: with v0 = 0 calculate_acceleration returns a value and raises
\* nothing, and beyond the emergency case s <= 0 the value is
\* a_max*(1 - term2) cut to [-b, a_max].
C15_ZeroDesiredSpeed ==
    pc = "read" /\ idm.v0 = 0 =>
        LET lead == FindLead(vehicles, car)
            s    == EffectiveGap(vehicles, car, lead)
            r    == calculate_acceleration(idm, vehicles, car, lead)
            s_star == SStar(idm, vehicles[car].velocity, DeltaV(vehicles, car, lead))
        IN  /\ r.exc = ""
            /\ ~ (lead # None /\ s <= 0) =>
                  r.value = ClampAccel(idm, Even(idm.a_max - AMaxTerm2(idm, s_star, s)))

----------------------------------------------------------------------------
(* C16 *)

\* C16: the records come one per vehicle and step, in list order, labelled
\* step*dt and carrying the vehicle's id and mass; when a step's write phase
\* is finished its records hold the position, velocity and acceleration the
\* vehicles then have; ids and masses are those of the construction.
C16_RecordsMatchStepEnd ==
    /\ Len(data) = t * N + (IF pc = "write" THEN car - 1 ELSE 0)
    /\ \A k \in DOMAIN data :
          LET i == ((k - 1) % N) + 1
          IN  /\ data[k].time = ((k - 1) \div N) * cfg.dt
              /\ data[k].id = initial[i].vehicle_id
              /\ data[k].mass = initial[i].mass
    /\ \A i \in DOMAIN vehicles :
          /\ vehicles[i].vehicle_id = initial[i].vehicle_id
          /\ vehicles[i].mass = initial[i].mass
          /\ \A j \in DOMAIN vehicles : i # j => vehicles[i].vehicle_id # vehicles[j].vehicle_id
    /\ WritePhaseFinished =>
          \A i \in 1 .. N :
              LET rec == data[(t - 1) * N + i]
              IN  /\ rec.x = vehicles[i].position
                  /\ rec.v = vehicles[i].velocity
                  /\ rec.a = vehicles[i].acceleration

\* the second step is finished; the first vehicle moved in it and others
\* were written after it
C16_Witness ==
    /\ WritePhaseFinished /\ t >= 2 /\ N >= 2
    /\ data[(t - 1) * N + 1].x # data[(t - 2) * N + 1].x
    /\ data[(t - 1) * N + 2].x # data[(t - 2) * N + 2].x

----------------------------------------------------------------------------
(* C17 *)

\* C17: with uniform placement vehicle i (id i, list index i+1) is constructed
\* at i*(L/N), whatever was drawn for the velocities; L = 1000 m, N = 4 gives
\* 0, 250, 500, 750 m; for L > 0 the positions increase strictly with the id.
C17_UniformSpacing ==
    /\ UniformPositions(4, ToPosition(4000))
          = <<0, ToPosition(1000), ToPosition(2000), ToPosition(3000)>>
    /\ cfg.distribution = "uniform" =>
          \A i \in 1 .. Len(initial) :
              /\ initial[i].vehicle_id = i - 1
              /\ Len(initial) * initial[i].position = (i - 1) * cfg.road_length
              /\ i > 1 /\ cfg.road_length > 0 => initial[i - 1].position < initial[i].position

C17_Witness ==
    /\ pc = "constructed"
    /\ cfg.distribution = "uniform" /\ cfg.road_length > 0
    /\ Len(vehicles) = 3
    /\ vehicles = initial

----------------------------------------------------------------------------
(* C18 *)

\* C18: every acceleration the read phase computed for a vehicle whose leader
\* is at most one car length ahead (s <= 0) is exactly -b, and such a vehicle
\* is recorded with acceleration -b in the first step.
C18_EmergencyBraking ==
    /\ pc = "read" \/ ReadPhaseComplete =>
          \A i \in Fresh :
              lead_cars[i] # None /\ EffectiveGap(vehicles, i, lead_cars[i]) <= 0 =>
                  accelerations[i] = 0 - idm.b
    /\ \A k \in DOMAIN data :
          k <= N /\ FindLead(initial, k) # None
             /\ initial[FindLead(initial, k)].position - initial[k].position
                   <= ToPosition(CarLength)
          => data[k].a = 0 - idm.b

\* in the first step a moving vehicle one car length or less behind a slower
\* leader got -b, under parameters with b # a_max
C18_Witness ==
    /\ ReadPhaseComplete /\ t = 0
    /\ idm.b # idm.a_max
    /\ \E i \in 1 .. N :
          /\ lead_cars[i] # None
          /\ EffectiveGap(vehicles, i, lead_cars[i]) <= 0
          /\ vehicles[i].velocity > vehicles[lead_cars[i]].velocity
          /\ accelerations[i] = 0 - idm.b

----------------------------------------------------------------------------
(* C19 *)

\* C19: a chosen leader is the first in the vehicle list, and has the lowest
\* id, among the vehicles ahead for which the lookup computes the same
\* distance as for the leader.
C19_FirstOfTiedLeaders ==
    pc = "read" \/ ReadPhaseComplete =>
        \A i \in Fresh : lead_cars[i] # None =>
            \A o \in 1 .. N :
                /\ vehicles[o].position > vehicles[i].position
                /\ Rounded(vehicles[o].position - vehicles[i].position)
                      = Rounded(vehicles[lead_cars[i]].position - vehicles[i].position)
                =>
                    /\ lead_cars[i] <= o
                    /\ vehicles[lead_cars[i]].vehicle_id <= vehicles[o].vehicle_id

\* a vehicle has two vehicles at the same minimal distance ahead
C19_Witness ==
    /\ ReadPhaseComplete
    /\ \E i, o \in 1 .. N :
          /\ lead_cars[i] # None /\ o # lead_cars[i]
          /\ vehicles[o].position = vehicles[lead_cars[i]].position

----------------------------------------------------------------------------
(* C20 *)

\* C20: in a run whose initial positions are strictly increasing with the
\* index, the positions are strictly increasing with the index in every
\* state, every leader chosen is the next vehicle of the list and the last
\* vehicle has none.
C20_OrderPreserved ==
    StrictStart =>
        /\ \A i \in 1 .. N - 1 : vehicles[i].position < vehicles[i + 1].position
        /\ \A i \in Fresh : lead_cars[i] = (IF i < N THEN i + 1 ELSE None)

----------------------------------------------------------------------------
(* C21 *)

\* C21: in a run whose vehicles start in list order, each at least a car
\* length behind the next, consecutive vehicles are at least a car length
\* apart whenever no step is being written, the gap the write phase computes
\* for a vehicle with a leader is never negative, and no record shows a
\* vehicle behind the position it had one step before.
C21_SpacingKept ==
    SpacedStart =>
        /\ pc # "write" =>
              \A i \in 1 .. N - 1 :
                  vehicles[i + 1].position - vehicles[i].position >= ToPosition(CarLength)
        /\ pc = "write" /\ lead_cars[car] # None => Gap(vehicles, car, lead_cars[car]) >= 0
        /\ \A k \in DOMAIN data :
              data[k].x >= (IF k > N THEN data[k - N].x ELSE initial[k].position)

====
